---- MODULE Spec2Model ----
(***************************************************************************)
(* Model of the notebook _notebooks/2022-06-24-convert-input-data.ipynb:   *)
(* three conversions (.csv, Matlab <= v7, Matlab v7.3) of the same         *)
(* recording into an HDF5 container holding one EArray `time_data` with    *)
(* the attribute `sample_freq`.  The kernel executes the statements of the *)
(* code cells in order; an exception stops the execution.                  *)
(***************************************************************************)
EXTENDS Integers, Sequences, FiniteSets, TLC

\* ---------------------------------------------------------------- bounds
\* Largest number of samples (rows) and channels (columns) of the recording.
MaxSamples == 2
MaxChannels == 2

\* The values a recording may hold.  All are exact in float64; 16777217
\* (2^24 + 1) has no float32 representation.
Vals == {1, 16777217}

\* ---------------------------------------------------------------- floats
\* A floating-point value: a number, or NaN.
Num(n) == [nan |-> FALSE, v |-> n]
NaN == [nan |-> TRUE, v |-> 0]

\* Number of significand bits of a 32-bit IEEE float.
Float32Bits == 24

RECURSIVE Pow2(_)
Pow2(k) == IF k = 0 THEN 1 ELSE 2 * Pow2(k - 1)

Abs(n) == IF n < 0 THEN -n ELSE n

\* Distance between neighbouring float32 values around the magnitude a.
RECURSIVE Ulp(_)
Ulp(a) == IF a < Pow2(Float32Bits) THEN 1 ELSE 2 * Ulp(a \div 2)

\* dtype='float32' on an integral number: round to nearest, ties to even.
RoundFloat32(n) ==
    LET a == Abs(n)
        q == Ulp(a)
        k == a \div q
        r == a - k * q
        m == IF 2 * r < q THEN k
             ELSE IF 2 * r > q THEN k + 1
             ELSE IF k % 2 = 0 THEN k ELSE k + 1
    IN  IF n < 0 THEN -(m * q) ELSE m * q

\* Conversion of one value to dtype float32.
Cast32(x) == IF x.nan THEN NaN ELSE Num(RoundFloat32(x.v))

\* ---------------------------------------------------------------- arrays
\* A numpy array: its shape and its elements in row-major order.
Array(shape, flat) == [shape |-> shape, flat |-> flat]

Rank(a) == Len(a.shape)

\* a[i][j] of a 2-D array, 0-based as in the source.
At(a, i, j) == a.flat[i * a.shape[2] + j + 1]

\* np.array(a, dtype='float32')
AsFloat32(a) == Array(a.shape, [k \in DOMAIN a.flat |-> Cast32(a.flat[k])])

\* The transposition left out.
TransposeNoop(a) == a

\* a.T : the axes reversed (a no-op below two dimensions).
Transpose(a) ==
    IF Rank(a) < 2 THEN a
    ELSE LET R == a.shape[1]
             C == a.shape[2]
         IN  Array(<<C, R>>,
                   [k \in 1..(R * C) |->
                       a.flat[((k - 1) % R) * C + ((k - 1) \div R) + 1]])

\* np.squeeze: the axes of length one removed.
Squeeze(a) == Array(SelectSeq(a.shape, LAMBDA d : d # 1), a.flat)

\* ----------------------------------------------------------- file system
H5Path == "three_sources.h5"
CsvPath == "three_sources.csv"
Mat7Path == "three_sourcesv7.mat"
Mat73Path == "three_sourcesv73.mat"

Convs == <<"csv", "mat7", "mat73">>

SrcPath(c) ==
    CASE c = "csv" -> CsvPath
      [] c = "mat7" -> Mat7Path
      [] c = "mat73" -> Mat73Path

DestPath(c) ==
    CASE c = "csv" -> "three_sources_from_csv.h5"
      [] c = "mat7" -> "three_sources_from_mat7.h5"
      [] c = "mat73" -> "three_sources_from_mat73.h5"

Paths == {H5Path}
            \cup {SrcPath(Convs[k]) : k \in DOMAIN Convs}
            \cup {DestPath(Convs[k]) : k \in DOMAIN Convs}

\* The content of a path: nothing, a text file (lines of comma-separated
\* fields), a Matlab <= v7 file (named arrays) or an HDF5 file (named
\* nodes below the root, each with its data and its attributes).
Absent == [kind |-> "absent"]
TextFile(lines) == [kind |-> "text", lines |-> lines]
MatFile(vars) == [kind |-> "mat", vars |-> vars]
H5File(title, nodes) == [kind |-> "hdf5", title |-> title, nodes |-> nodes]

\* A field of a text line: the decimal text of the number v, or text that
\* is no number.
NumField(n) == [numeric |-> TRUE, v |-> n]
BadField == [numeric |-> FALSE, v |-> 0]

\* The value every conversion writes as sample_freq.
SampleFreq == 51200

\* ------------------------------------------------------------ numpy, scipy
\* StringConverter._loose_call of genfromtxt (loose=True): float(text), and
\* the default nan where float() raises.
LooseConvert(f) == IF f.numeric THEN Num(f.v) ELSE NaN

\* The lines np.genfromtxt takes as rows: a line that splits into no
\* field is skipped.
Rows(f) == SelectSeq(f.lines, LAMBDA l : Len(l) > 0)

\* np.genfromtxt(path, delimiter=',', dtype='float32'): the exception it
\* raises ("none": it returns).  The first row sets the number of columns;
\* a row with another number of fields is an error (invalid_raise=True).
GenfromtxtRaises(f) ==
    IF f.kind = "absent" THEN "OSError"
    ELSE IF \E k \in DOMAIN Rows(f) : Len(Rows(f)[k]) # Len(Rows(f)[1])
         THEN "ValueError"
         ELSE "none"

\* ... and the array it returns: every field converted, and the result
\* squeezed (ndmin=0); an empty array for a file without a row.
Genfromtxt(f) ==
    LET rows == Rows(f)
        S == Len(rows)
        C == IF S = 0 THEN 0 ELSE Len(rows[1])
    IN  IF S = 0
        THEN Array(<<0>>, << >>)
        ELSE Squeeze(Array(<<S, C>>,
                [k \in 1..(S * C) |->
                    Cast32(LooseConvert(rows[((k - 1) \div C) + 1][((k - 1) % C) + 1]))]))

\* loadmat(path)['ans'] followed by np.array(ans, dtype='float32').
LoadmatRaises(f) ==
    IF f.kind = "absent" THEN "FileNotFoundError"
    ELSE IF "ans" \notin DOMAIN f.vars THEN "KeyError"
    ELSE "none"

Loadmat(f) == AsFloat32(f.vars["ans"])

\* np.array(matfile73.root.ans[:,:], dtype='float32').T on the open file.
ReadAnsRaises(f) ==
    IF "ans" \notin DOMAIN f.nodes THEN "NoSuchNodeError" ELSE "none"

ReadAns(f) == Transpose(AsFloat32(f.nodes["ans"].data))

\* ---------------------------------------------------------------- pytables
\* tables.open_file(path, mode='r'): the exception it raises.
OpenReadRaises(f) == IF f.kind = "absent" THEN "OSError" ELSE "none"

\* What mode='a' would do: an existing container is kept.
OpenAppend(f, title) == IF f.kind = "hdf5" THEN f ELSE H5File(title, << >>)

\* tables.open_file(path, mode='w', title=...): a new file, replacing the
\* one at the path.
OpenWrite(f, title) == H5File(title, << >>)

\* The attributes pytables sets on every EArray it creates.
SystemAttrs ==
    [CLASS |-> "EARRAY", EXTDIM |-> 0, TITLE |-> "", VERSION |-> "1.1"]

\* create_earray('/', name, obj=obj): an EArray of shape (0,) + obj.shape[1:]
\* is created and obj is appended to it; append raises when the ranks
\* differ, which they do for a 0-d obj.
CreateEarrayRaises(obj) == IF Rank(obj) = 0 THEN "ValueError" ELSE "none"

\* The EArray created, and obj never appended.
CreateEarrayEmpty(f, name, obj) ==
    [f EXCEPT !.nodes = (name :> [data |-> Array(<<0>>, << >>), attrs |-> SystemAttrs]) @@ @]

CreateEarray(f, name, obj) ==
    [f EXCEPT !.nodes =
        (name :> [data |-> IF Rank(obj) = 0 THEN Array(<<0>>, << >>) ELSE obj,
                  attrs |-> SystemAttrs]) @@ @]

\* The attribute never set.
SetAttrNothing(f, node, name, value) == f

\* node.set_attr(name, value)
SetAttr(f, node, name, value) ==
    [f EXCEPT !.nodes[node].attrs = (name :> value) @@ @]

\* node[:, :] and node.attrs of a container, as cells 8 and 10 read them.
ReadData(f, node) == f.nodes[node].data
AttrNames(f, node) == DOMAIN f.nodes[node].attrs
UserAttrNames(f, node) == AttrNames(f, node) \ DOMAIN SystemAttrs
GetAttr(f, node, name) == f.nodes[node].attrs[name]

\* ------------------------------------------------------------ the notebook
\* The destination opened before the source is read.
ProgramOpenFirst(c) ==
    IF c = "mat73"
    THEN <<"open_dest", "open_src", "parse", "create_earray", "set_attr", "close_dest">>
    ELSE <<"open_dest", "parse", "create_earray", "set_attr", "close_dest">>

\* The statements of each conversion, in the order of the code cells.
Program(c) ==
    IF c = "mat73"
    THEN <<"open_src", "parse", "open_dest", "create_earray", "set_attr", "close_dest">>
    ELSE <<"parse", "open_dest", "create_earray", "set_attr", "close_dest">>

\* The Python variable a conversion binds its source and destination file to.
SrcVar(c) == "matfile73"
DestVar(c) ==
    CASE c = "csv" -> "h5filecsv"
      [] c = "mat7" -> "h5filemat7"
      [] c = "mat73" -> "h5filemat73"

VARIABLES
    fs,       \* path -> content
    handles,  \* the open file objects: [var, path, mode, conv], conv the
              \* conversion that opened the file ("none": cell 4)
    data,     \* the arrays datacsv, datamat7, datamat73, by conversion
    ip,       \* the statement to execute next: conversion c, statement i
    err,      \* the exception that stopped the execution, or "none"
    before    \* fs as it was when the current conversion began

vars == <<fs, handles, data, ip, err, before>>

\* ------------------------------------------------------------------- Init
\* The recording: S samples of C channels.
Recordings ==
    UNION {{Array(<<S, C>>, [k \in 1..(S * C) |-> Num(g[k])]) :
                g \in [1..(S * C) -> Vals]} :
           <<S, C>> \in (1..MaxSamples) \X (1..MaxChannels)}

\* The text of a recording: a line per sample, a field per channel.
Lines(L) ==
    [r \in 1..L.shape[1] |-> [c \in 1..L.shape[2] |-> NumField(At(L, r - 1, c - 1).v)]]

\* three_sources.csv: missing, the recording, or the recording with the
\* last line a field too long, a field too short, or ending in text that
\* is no number.
CsvFiles(L) ==
    LET ls == Lines(L)
        S == Len(ls)
        last == ls[S]
    IN  {Absent, TextFile(ls),
         TextFile([ls EXCEPT ![S] = [last EXCEPT ![Len(last)] = BadField]])}
        \cup (IF S >= 2
              THEN {TextFile([ls EXCEPT ![S] = Append(last, NumField(1))]),
                    TextFile([ls EXCEPT ![S] = SubSeq(last, 1, Len(last) - 1)])}
              ELSE {})

\* three_sourcesv7.mat: missing, the recording as `ans`, or a file without
\* an array of that name.
Mat7Files(L) == {Absent, MatFile("ans" :> L), MatFile("x" :> L)}

\* three_sourcesv73.mat: the same, as an HDF5 file; Matlab stores the array
\* transposed.
Mat73Files(L) ==
    LET node == [data |-> Transpose(L), attrs |-> [MATLAB_class |-> "double"]]
    IN  {Absent, H5File("", "ans" :> node), H5File("", "x" :> node)}

\* three_sources.h5: the recording in the layout cells 4-10 display, one
\* EArray time_data of 32 bit floats with the attribute sample_freq.
AcoularFile(L) ==
    H5File("", "time_data" :> [data |-> AsFloat32(L),
                               attrs |-> ("sample_freq" :> SampleFreq) @@ SystemAttrs])

\* What a destination path may hold beforehand: nothing, or a container of
\* an earlier run with other content.
OldFiles ==
    {Absent,
     H5File("old", ("time_data" :> [data |-> Array(<<1, 1>>, <<Num(1)>>),
                                    attrs |-> [CLASS |-> "EARRAY", stale |-> 1]])
                   @@ ("old_data" :> [data |-> Array(<<1>>, <<Num(1)>>),
                                      attrs |-> [CLASS |-> "ARRAY"]]))}

\* The state before cell 12: cells 2-10 have downloaded the files, opened
\* three_sources.h5 as h5file and displayed it; h5file is never closed.
Init ==
    /\ \E L \in Recordings :
       \E csv \in CsvFiles(L), m7 \in Mat7Files(L), m73 \in Mat73Files(L), old \in OldFiles :
          fs = [p \in Paths |->
                   CASE p = H5Path -> AcoularFile(L)
                     [] p = CsvPath -> csv
                     [] p = Mat7Path -> m7
                     [] p = Mat73Path -> m73
                     [] OTHER -> old]
    /\ handles = {[var |-> "h5file", path |-> H5Path, mode |-> "r", conv |-> "none"]}
    /\ data = << >>
    /\ ip = [c |-> 1, i |-> 1]
    /\ err = "none"
    /\ before = fs

\* ---------------------------------------------------------------- control
Running == err = "none" /\ ip.c <= Len(Convs)
Conv == Convs[ip.c]
Stmt == Program(Conv)[ip.i]

\* The statement after the current one.
Advance ==
    IF ip.i < Len(Program(Conv))
    THEN [ip EXCEPT !.i = @ + 1]
    ELSE [c |-> ip.c + 1, i |-> 1]

\* fs at the start of the conversion the current statement belongs to.
Snapshot == IF ip.i = 1 THEN fs ELSE before

\* The current statement raises exc: the execution stops where it is.
Raise(exc) ==
    /\ err' = exc
    /\ ip' = ip

Handle(var, path, mode) == [var |-> var, path |-> path, mode |-> mode, conv |-> Conv]

\* ---------------------------------------------------------------- actions
\* matfile73 = tables.open_file('three_sourcesv73.mat', mode = 'r')
OpenSrc ==
    /\ Running /\ Stmt = "open_src"
    /\ before' = Snapshot
    /\ LET exc == OpenReadRaises(fs[SrcPath(Conv)])
       IN  IF exc # "none"
           THEN Raise(exc) /\ UNCHANGED handles
           ELSE /\ handles' = handles \cup {Handle(SrcVar(Conv), SrcPath(Conv), "r")}
                /\ ip' = Advance
                /\ err' = err
    /\ UNCHANGED <<fs, data>>

ParseRaises(c, f) ==
    CASE c = "csv" -> GenfromtxtRaises(f)
      [] c = "mat7" -> LoadmatRaises(f)
      [] c = "mat73" -> ReadAnsRaises(f)

ParseValue(c, f) ==
    CASE c = "csv" -> Genfromtxt(f)
      [] c = "mat7" -> Loadmat(f)
      [] c = "mat73" -> ReadAns(f)

\* datacsv = np.genfromtxt(...); datamat7 = np.array(loadmat(...)['ans'], ...);
\* datamat73 = np.array(matfile73.root.ans[:,:], ...).T
Parse ==
    /\ Running /\ Stmt = "parse"
    /\ before' = Snapshot
    /\ LET exc == ParseRaises(Conv, fs[SrcPath(Conv)])
       IN  IF exc # "none"
           THEN Raise(exc) /\ UNCHANGED data
           ELSE /\ data' = (Conv :> ParseValue(Conv, fs[SrcPath(Conv)])) @@ data
                /\ ip' = Advance
                /\ err' = err
    /\ UNCHANGED <<fs, handles>>

\* h5file... = tables.open_file(dest, mode='w', title='three_sources')
OpenDest ==
    /\ Running /\ Stmt = "open_dest"
    /\ before' = Snapshot
    /\ fs' = [fs EXCEPT ![DestPath(Conv)] = OpenWrite(@, "three_sources")]
    /\ handles' = handles \cup {Handle(DestVar(Conv), DestPath(Conv), "w")}
    /\ ip' = Advance
    /\ UNCHANGED <<data, err>>

\* earray... = h5file....create_earray('/', 'time_data', obj=data...)
CreateEarrayStmt ==
    /\ Running /\ Stmt = "create_earray"
    /\ before' = Snapshot
    /\ fs' = [fs EXCEPT ![DestPath(Conv)] = CreateEarray(@, "time_data", data[Conv])]
    /\ LET exc == CreateEarrayRaises(data[Conv])
       IN  IF exc # "none"
           THEN Raise(exc)
           ELSE ip' = Advance /\ err' = err
    /\ UNCHANGED <<handles, data>>

\* h5file....root.time_data.set_attr('sample_freq',51200.0)
SetAttrStmt ==
    /\ Running /\ Stmt = "set_attr"
    /\ before' = Snapshot
    /\ fs' = [fs EXCEPT ![DestPath(Conv)] = SetAttr(@, "time_data", "sample_freq", SampleFreq)]
    /\ ip' = Advance
    /\ UNCHANGED <<handles, data, err>>

\* h5file....close()
CloseDest ==
    /\ Running /\ Stmt = "close_dest"
    /\ before' = Snapshot
    /\ handles' = {h \in handles : h.var # DestVar(Conv)}
    /\ ip' = Advance
    /\ UNCHANGED <<fs, data, err>>

Next ==
    \/ OpenSrc
    \/ Parse
    \/ OpenDest
    \/ CreateEarrayStmt
    \/ SetAttrStmt
    \/ CloseDest

Spec == Init /\ [][Next]_vars

\* ----------------------------------------------------------------- claims
ConvIndex(c) == CHOOSE k \in DOMAIN Convs : Convs[k] = c
ConvSet == {Convs[k] : k \in DOMAIN Convs}

\* Conversion c has run to its end.
Done(c) == ip.c > ConvIndex(c)
\* Conversion c has just run to its end: `before` is fs as it began.
JustDone(c) == err = "none" /\ ip.c = ConvIndex(c) + 1 /\ ip.i = 1
\* Conversion c was stopped by an exception.
Failed(c) == err # "none" /\ ip.c = ConvIndex(c)
\* Conversion c was stopped by an exception of its input adapter.
AdapterFailed(c) == Failed(c) /\ Program(c)[ip.i] \in {"open_src", "parse"}

\* The array stored in three_sourcesv73.mat.
Raw73 == fs[Mat73Path].nodes["ans"].data

\* C1 as stated: the v7.3 adapter returns, for a stored array raw of shape
\* (C, S), a matrix of shape (S, C) with matrix[i][j] = raw[j][i].
C1_Original ==
    "mat73" \in DOMAIN data =>
        /\ data["mat73"].shape = <<Raw73.shape[2], Raw73.shape[1]>>
        /\ \A i \in 0..(Raw73.shape[2] - 1), j \in 0..(Raw73.shape[1] - 1) :
              At(data["mat73"], i, j) = At(Raw73, j, i)

\* C1 amended: the v7.3 adapter returns, for a stored array raw of shape
\* (C, S), a matrix of shape (S, C) with matrix[i][j] = raw[j][i] rounded
\* to a 32-bit float.
C1_TransposeCast ==
    "mat73" \in DOMAIN data =>
        /\ data["mat73"].shape = <<Raw73.shape[2], Raw73.shape[1]>>
        /\ \A i \in 0..(Raw73.shape[2] - 1), j \in 0..(Raw73.shape[1] - 1) :
              At(data["mat73"], i, j) = Cast32(At(Raw73, j, i))

\* The v7.3 adapter has returned the matrix of a stored array that is not
\* square, not symmetric in its values and holds a value float32 lacks.
C1_Witness ==
    /\ "mat73" \in DOMAIN data
    /\ Raw73.shape[1] # Raw73.shape[2]
    /\ \E k \in DOMAIN Raw73.flat : Raw73.flat[k] # Cast32(Raw73.flat[k])
    /\ \E k \in DOMAIN Raw73.flat : Raw73.flat[k] # Raw73.flat[1]

\* The three sources hold the same recording.
SameDataset ==
    /\ fs[CsvPath].kind = "text"
    /\ fs[Mat7Path].kind = "mat" /\ "ans" \in DOMAIN fs[Mat7Path].vars
    /\ fs[Mat73Path].kind = "hdf5" /\ "ans" \in DOMAIN fs[Mat73Path].nodes
    /\ fs[CsvPath].lines = Lines(fs[Mat7Path].vars["ans"])
    /\ Raw73 = Transpose(fs[Mat7Path].vars["ans"])

\* C2: the three adapters return equal matrices (same shape, same entries)
\* for sources that hold the same recording.
C2_FormatEquivalence ==
    (SameDataset /\ DOMAIN data = ConvSet) =>
        /\ data["csv"] = data["mat7"]
        /\ data["mat7"] = data["mat73"]

\* C3: re-reading the container a conversion has written yields the matrix
\* that was written and the sample_freq that was set.
C3_RoundTrip ==
    \A c \in ConvSet :
        Done(c) =>
            /\ "time_data" \in DOMAIN fs[DestPath(c)].nodes
            /\ ReadData(fs[DestPath(c)], "time_data") = data[c]
            /\ "sample_freq" \in AttrNames(fs[DestPath(c)], "time_data")
            /\ GetAttr(fs[DestPath(c)], "time_data", "sample_freq") = SampleFreq

\* A conversion has written a 2-D matrix of more than one sample and channel.
C3_Witness ==
    \E c \in ConvSet :
        /\ Done(c)
        /\ Rank(data[c]) = 2
        /\ \E k \in DOMAIN data[c].flat : data[c].flat[k] # data[c].flat[1]

\* C4 as stated: after a write the container has one root dataset,
\* time_data, and enumerating its attributes yields one, sample_freq.
C4_Original ==
    \A c \in ConvSet :
        Done(c) =>
            /\ DOMAIN fs[DestPath(c)].nodes = {"time_data"}
            /\ AttrNames(fs[DestPath(c)], "time_data") = {"sample_freq"}

\* C4 amended: after a write the container has one root dataset, time_data,
\* with one attribute set by the conversion, sample_freq; enumerating its
\* attributes yields five: CLASS, EXTDIM, TITLE, VERSION and sample_freq.
C4_SingleUserAttribute ==
    \A c \in ConvSet :
        Done(c) =>
            /\ DOMAIN fs[DestPath(c)].nodes = {"time_data"}
            /\ UserAttrNames(fs[DestPath(c)], "time_data") = {"sample_freq"}
            /\ AttrNames(fs[DestPath(c)], "time_data")
                  = {"CLASS", "EXTDIM", "TITLE", "VERSION", "sample_freq"}
            /\ Cardinality(AttrNames(fs[DestPath(c)], "time_data")) = 5

\* All three conversions have written their container.
C4_Witness == \A c \in ConvSet : Done(c)

\* C5: once a conversion has finished or failed, no file it opened is open.
C5_HandlesReleased ==
    \A c \in ConvSet :
        (Done(c) \/ Failed(c)) => ~ \E h \in handles : h.conv = c

\* The text file has a line whose number of fields differs from the first
\* line's, or a field that is no number.
Malformed(f) ==
    \/ \E k \in DOMAIN f.lines : Len(f.lines[k]) # Len(f.lines[1])
    \/ \E k \in DOMAIN f.lines : \E n \in DOMAIN f.lines[k] : ~ f.lines[k][n].numeric

\* The parse statement of the .csv conversion has been executed.
CsvParsed == ip # [c |-> 1, i |-> 1] \/ err # "none"

\* C6: parsing a malformed text file fails and returns no matrix.
C6_MalformedRejected ==
    (fs[CsvPath].kind = "text" /\ Malformed(fs[CsvPath]) /\ CsvParsed) =>
        /\ Failed("csv")
        /\ "csv" \notin DOMAIN data

\* C8: a write to a path that holds a container replaces it: afterwards
\* the container holds the written time_data with its attributes, and
\* nothing of what it held.
C8_TruncateOnCreate ==
    \A c \in ConvSet :
        (JustDone(c) /\ before[DestPath(c)].kind = "hdf5") =>
            /\ fs[DestPath(c)].title = "three_sources"
            /\ DOMAIN fs[DestPath(c)].nodes = {"time_data"}
            /\ ReadData(fs[DestPath(c)], "time_data") = data[c]
            /\ "stale" \notin AttrNames(fs[DestPath(c)], "time_data")
            /\ "sample_freq" \in AttrNames(fs[DestPath(c)], "time_data")

\* A conversion has just written to a path that held a container with a
\* dataset time_data and another one.
C8_Witness ==
    \E c \in ConvSet :
        /\ JustDone(c)
        /\ before[DestPath(c)].kind = "hdf5"
        /\ DOMAIN before[DestPath(c)].nodes = {"time_data", "old_data"}

\* C9: the destination of a conversion is opened only after the source has
\* been read into memory, and no source is open for reading while the
\* destination of the same conversion is open for writing.
C9_NoOverlap ==
    /\ \A h \in handles : h.mode = "w" => h.conv \in DOMAIN data
    /\ ~ \E r \in handles, w \in handles :
            r.conv = w.conv /\ r.mode = "r" /\ w.mode = "w"

\* C10: when the input adapter of a conversion fails, the destination of
\* the conversion is as it was when the conversion began.
C10_AdapterFailureKeepsDest ==
    \A c \in ConvSet :
        AdapterFailed(c) => fs[DestPath(c)] = before[DestPath(c)]

\* An input adapter has failed, and the destination held a container.
C10_Witness ==
    \E c \in ConvSet :
        /\ AdapterFailed(c)
        /\ Program(c)[ip.i] = "parse"
        /\ before[DestPath(c)].kind = "hdf5"

====
